---- MODULE Spec2Model ----
(***************************************************************************)
(* Model of rbs_assets_library: the model resource resolver of             *)
(* rbs_assets_library/__init__.py and the batch script                     *)
(* scripts/get_inertial_parameters.py that derives inertial parameters     *)
(* from a collision mesh and writes model.config and model.urdf.           *)
(*                                                                         *)
(* Strings are modelled structurally.  A path is a record [abs, parts]     *)
(* whose parts are components [stem, ext]; the empty string is the         *)
(* relative path without parts.  A text (a file body, an XML document) is  *)
(* a sequence of tokens [t, s, p, n]: the tag, a string argument, a path   *)
(* argument and a sequence of numbers; whitespace is not a token.          *)
(***************************************************************************)
EXTENDS Integers, Sequences, FiniteSets, TLC

VARIABLES
    fs,        \* model directory name -> set of files in its directory tree
    geom,      \* model directory name -> the solid its collision meshes encode
    ret,       \* the last library call: its arguments and its outcome
    pc,        \* the batch script: "idle", "loop", "done" or "crashed"
    selected,  \* the batch script's selected_models
    idx,       \* position of the batch loop in selected (1-based)
    generated, \* models whose files the running/last batch has written
    emitlog    \* every call of the description emitter so far: [fn, args, text]

vars == <<fs, geom, ret, pc, selected, idx, generated, emitlog>>

(***************************************************************************)
(* Bounds                                                                  *)
(***************************************************************************)
\* asset files installed under models/, all models together
MaxFiles == 4
\* magnitude of the signed volume of a collision mesh
MaxVolume == 1
\* states of the random generator when a colour is drawn: 0..MaxRandom
MaxRandom == 1

(***************************************************************************)
(* Paths                                                                   *)
(***************************************************************************)
Comp(stem, ext) == [stem |-> stem, ext |-> ext]

Dir(name) == Comp(name, "")

Path(abs, parts) == [abs |-> abs, parts |-> parts]

\* the empty string
EmptyPath == Path(FALSE, <<>>)

\* os.path.join(a, b)
join(a, b) == IF b.abs THEN b ELSE Path(a.abs, a.parts \o b.parts)

\* str.endswith(ext) on a file name
name_endswith(name, ext) == name.ext = ext

\* str.endswith(exts) on a path string, exts a set of suffixes
endswith(path, exts) ==
    /\ path.parts # <<>>
    /\ path.parts[Len(path.parts)].ext \in exts

RECURSIVE CommonPrefixLen(_, _)
CommonPrefixLen(p, q) ==
    IF p = <<>> \/ q = <<>> \/ Head(p) # Head(q)
    THEN 0
    ELSE 1 + CommonPrefixLen(Tail(p), Tail(q))

\* os.path.relpath(path, start) of two absolute paths
relpath_absolute(path, start) == path

relpath(path, start) ==
    LET c    == CommonPrefixLen(path.parts, start.parts)
        ups  == [i \in 1..(Len(start.parts) - c) |-> Dir("..")]
        rest == SubSeq(path.parts, c + 1, Len(path.parts))
    IN  IF ups \o rest = <<>>
        THEN Path(FALSE, <<Dir(".")>>)
        ELSE Path(FALSE, ups \o rest)

get_assets_path == Path(TRUE, <<Dir("site-packages"), Dir("rbs_assets_library")>>)

get_models_path == join(get_assets_path, Path(FALSE, <<Dir("models")>>))

(***************************************************************************)
(* Texts                                                                   *)
(***************************************************************************)
Tok(t, s, p, n) == [t |-> t, s |-> s, p |-> p, n |-> n]

Tag(t) == Tok(t, "", EmptyPath, <<>>)

(***************************************************************************)
(* The installed assets                                                    *)
(***************************************************************************)
File(dir, name, body) == [dir |-> dir, name |-> name, body |-> body]

MeshFile(dir, name) == File(dir, name, <<>>)

\* a stored single-link description with a visual and a collision geometry
StoredBody(root) ==
    << Tag(root), Tag("<link>"),
       Tag("<visual>"), Tag("<geometry>"), Tag("<box/>"), Tag("</geometry>"),
       Tag("</visual>"),
       Tag("<collision>"), Tag("<geometry>"), Tag("<box/>"), Tag("</geometry>"),
       Tag("</collision>"),
       Tag("</link>") >>

\* the mesh files a model directory may hold when the package is installed
MeshFiles ==
    { MeshFile(<<Dir("meshes")>>, Comp("visual", ".dae")),
      MeshFile(<<Dir("meshes"), Dir("collision")>>, Comp("collision", ".stl")),
      MeshFile(<<>>, Comp("collision", ".obj")),
      MeshFile(<<Dir("meshes")>>, Comp("collision", ".obj")) }

\* the stored descriptions a model directory may hold
DescriptionFiles ==
    { File(<<>>, Comp("robot", ".urdf"), StoredBody("<robot>")),
      File(<<Dir("sdf")>>, Comp("robot", ".sdf"), StoredBody("<sdf>")) }

FileUniverse == MeshFiles \cup DescriptionFiles

\* directories with assets, and every directory under models/
Models == {"a", "b"}

DirEntries == Models \cup {"__pycache__"}

\* the model names a caller may ask for: "ghost" has no directory
Requested == DirEntries \cup {"ghost"}

\* str.startswith("__") on a directory name
startswith_dunder(d) == d \in {"__pycache__"}

Unloadable == [loadable |-> FALSE, volume |-> 0,
               center_mass |-> <<0, 0, 0>>,
               moment_inertia |-> <<<<0, 0, 0>>, <<0, 0, 0>>, <<0, 0, 0>>>>]

\* a mesh trimesh loads, with the mass properties trimesh reports for it
Solid(v) == [loadable |-> TRUE, volume |-> v,
             center_mass |-> <<0, 0, 0>>,
             moment_inertia |-> <<<<v, 0, 0>>, <<0, v, 0>>, <<0, 0, v>>>>]

Volumes == {-MaxVolume, 0, MaxVolume}

Geometries == {Unloadable} \cup {Solid(v) : v \in Volumes}

model_folder(name) == join(get_models_path, Path(FALSE, <<Dir(name)>>))

\* os.path.join(root, file) for a file found by os.walk(folder)
file_path(folder, f) == Path(TRUE, folder.parts \o f.dir \o <<f.name>>)

ExistingPaths(f) ==
    UNION {{file_path(model_folder(m), x) : x \in f[m]} : m \in DOMAIN f}

\* the body of the file at path p
ReadFile(f, p) ==
    LET hits == UNION {{x \in f[m] : file_path(model_folder(m), x) = p} : m \in DOMAIN f}
    IN  (CHOOSE x \in hits : TRUE).body

(***************************************************************************)
(* os.walk, top-down: the files of a directory in listing order, then its  *)
(* subdirectories in listing order.  The listing order is arbitrary.       *)
(***************************************************************************)
RECURSIVE Perms(_)
Perms(S) ==
    IF S = {} THEN {<<>>}
    ELSE UNION {{<<x>> \o p : p \in Perms(S \ {x})} : x \in S}

RECURSIVE WalkFrom(_, _)
RECURSIVE WalkDirs(_, _)
WalkFrom(tree, d) ==
    LET here  == {f \in tree : f.dir = d}
        below == {f \in tree : /\ Len(f.dir) > Len(d)
                               /\ SubSeq(f.dir, 1, Len(d)) = d}
        subs  == {SubSeq(f.dir, 1, Len(d) + 1) : f \in below}
    IN  {p \o q : p \in Perms(here),
                  q \in UNION {WalkDirs(tree, so) : so \in Perms(subs)}}

WalkDirs(tree, so) ==
    IF so = <<>> THEN {<<>>}
    ELSE {p \o q : p \in WalkFrom(tree, Head(so)), q \in WalkDirs(tree, Tail(so))}

os_walk(tree) == WalkFrom(tree, <<>>)

\* the visiting orders of os.walk(model folder); nothing for a missing folder
walk_model(f, m) == IF m \in DOMAIN f THEN os_walk(f[m]) ELSE {<<>>}

(***************************************************************************)
(* Outcomes of a call: a status ("ok" or the exception type), the          *)
(* exception message, the returned path / text / mesh dict, and the file   *)
(* system and import effects of the call in program order.                 *)
(***************************************************************************)
\* the dict {"name": name, "visual": None, "collision": None}; an entry is
\* <<>> for None and <<path>> for a path
MeshDict(name, visual, collision) ==
    [name |-> name, visual |-> visual, collision |-> collision]

NoMesh == MeshDict("", <<>>, <<>>)

Outcome(status, err, path, text, mesh, fx) ==
    [status |-> status, err |-> err, path |-> path, text |-> text,
     mesh |-> mesh, fx |-> fx]

Raise(type, err, fx) == Outcome(type, err, EmptyPath, <<>>, NoMesh, fx)

ReturnPath(p, fx) == Outcome("ok", "", p, <<>>, NoMesh, fx)

ReturnText(t, fx) == Outcome("ok", "", EmptyPath, t, NoMesh, fx)

\* a file object: the path it is open on and the text written to it
ReturnFile(p, t, fx) == Outcome("ok", "", p, t, NoMesh, fx)

ReturnMesh(m, fx) == Outcome("ok", "", EmptyPath, <<>>, m, fx)

(***************************************************************************)
(* rbs_assets_library/__init__.py                                          *)
(***************************************************************************)
mesh_extensions == [visual |-> <<".dae">>, collision |-> <<".stl", ".obj">>]

\* any(file.endswith(ext) for ext in exts)
endswith_any(name, exts) == \E i \in 1..Len(exts) : name_endswith(name, exts[i])

get_model_names(f) == {d \in DOMAIN f : ~startswith_dunder(d)}

\* mesh["visual"] after the walk: the last visual file visited
visual_of_walk(folder, order) ==
    LET hits == {i \in 1..Len(order) :
                    endswith_any(order[i].name, mesh_extensions.visual)}
    IN  IF hits = {} THEN <<>>
        ELSE <<file_path(folder, order[CHOOSE i \in hits : \A j \in hits : j <= i])>>

\* collision_candidates after the walk, in visiting order
collision_candidates(order) ==
    SelectSeq(order, LAMBDA x : endswith_any(x.name, mesh_extensions.collision))

collision_first_candidate(folder, exts, cands) ==
    IF cands = <<>> THEN <<>> ELSE <<file_path(folder, cands[1])>>

\* mesh["collision"]: the first candidate of the first extension that has one
RECURSIVE collision_by_priority(_, _, _)
collision_by_priority(folder, exts, cands) ==
    IF exts = <<>> THEN <<>>
    ELSE LET hit == SelectSeq(cands, LAMBDA x : name_endswith(x.name, Head(exts)))
         IN  IF hit # <<>>
             THEN <<file_path(folder, hit[1])>>
             ELSE collision_by_priority(folder, Tail(exts), cands)

meshes_incomplete_both(mesh) == mesh.visual = <<>> /\ mesh.collision = <<>>

\* not mesh["visual"] or not mesh["collision"]
meshes_incomplete(mesh) == mesh.visual = <<>> \/ mesh.collision = <<>>

get_model_meshes_info(f, model_name, order) ==
    LET folder == model_folder(model_name)
        mesh   == MeshDict(model_name,
                           visual_of_walk(folder, order),
                           collision_by_priority(folder, mesh_extensions.collision,
                                                 collision_candidates(order)))
    IN  IF model_name \notin DOMAIN f
        THEN Raise("FileNotFoundError", "Path does not exist", <<>>)
        ELSE IF meshes_incomplete(mesh)
        THEN Raise("ValueError", "visual or collision mesh not found", <<>>)
        ELSE ReturnMesh(mesh, <<>>)

get_model_file(f, model_name, order) ==
    LET model_dir    == model_folder(model_name)
        models_found == SelectSeq(order,
                            LAMBDA x : endswith_any(x.name, <<".urdf", ".sdf">>))
    IN  IF model_name \notin get_model_names(f)
        THEN Raise("RuntimeError", "Failed to find robot", <<>>)
        ELSE IF Len(models_found) > 1
        THEN Raise("RuntimeError", "Found multiple models in the same folder", <<>>)
        ELSE IF Len(models_found) = 0
        THEN ReturnPath(EmptyPath, <<>>)
        ELSE ReturnPath(join(model_dir, Path(FALSE, <<models_found[1].name>>)), <<>>)

\* [random.random(), random.random(), random.random(), 1.0]: three
\* consecutive draws of a generator in state rng
random_color(rng) == <<rng, rng + 1, rng + 2, 1>>

\* str.replace(old, new) for a one-token old
RECURSIVE replace(_, _, _)
replace(text, old, new) ==
    IF text = <<>> THEN <<>>
    ELSE (IF Head(text) = old THEN new ELSE <<Head(text)>>)
         \o replace(Tail(text), old, new)

add_random_material_to_urdf(urdf, color) ==
    LET material_str == << Tok("<material>", "random_material", EmptyPath, <<>>),
                           Tok("<color/>", "", EmptyPath, color),
                           Tag("</material>") >>
    IN  replace(urdf, Tag("<geometry>"), material_str \o <<Tag("<geometry>")>>)

\* open(path, mode): the effect, or the exception when no file is there
open_fails(f, p) == p \notin ExistingPaths(f)

get_model_string(f, model_name, use_random_color, order, color) ==
    LET found == get_model_file(f, model_name, order)
    IN  IF found.status # "ok" THEN found
        ELSE IF open_fails(f, found.path)
        THEN Raise("FileNotFoundError", "open", <<>>)
        ELSE LET string == ReadFile(f, found.path)
             IN  ReturnText(IF use_random_color
                            THEN add_random_material_to_urdf(string, color)
                            ELSE string,
                            <<"open">>)

ResourceType ==
    {"SDF_FILE", "SDF_PATH", "SDF_STRING", "URDF_FILE", "URDF_PATH", "URDF_STRING"}

SdfTypes == {"SDF_FILE", "SDF_PATH", "SDF_STRING"}

UrdfTypes == {"URDF_FILE", "URDF_PATH", "URDF_STRING"}

\* from scenario import gazebo: the effect of the import statement
import_scenario(importable) ==
    IF importable THEN "import scenario" ELSE "import scenario: ImportError"

\* the temporary file tempfile names with prefix file_name and suffix .sdf
temp_path(stored_model) ==
    Path(TRUE, <<Dir("tmp"),
                 Comp(stored_model.parts[Len(stored_model.parts)].stem, ".sdf")>>)

\* scenario_gazebo.urdffile_to_sdfstring(urdf_file): the external converter
urdffile_to_sdfstring(stored_model) ==
    <<Tok("<sdf converted/>", "", stored_model, <<>>)>>

\* the nested get_model_resource(model_name, SDF_STRING) of the SDF_FILE and
\* SDF_PATH branches, from its import statements on
sdf_string_call(f, stored_model, importable, fx) ==
    IF ~importable
    THEN Raise("RuntimeError", "URDF to SDF conversion requires the 'scenario' package",
               fx \o <<import_scenario(importable)>>)
    ELSE IF open_fails(f, stored_model)
    THEN Raise("ConverterError", "urdffile_to_sdfstring",
               fx \o <<import_scenario(importable), import_scenario(importable)>>)
    ELSE ReturnText(urdffile_to_sdfstring(stored_model),
                    fx \o <<import_scenario(importable), import_scenario(importable),
                            "urdffile_to_sdfstring">>)

get_model_resource_urdf_tempfirst(f, stored_model, resource_type, importable) ==
    IF resource_type = "URDF_PATH" THEN ReturnPath(stored_model, <<>>)
    ELSE IF resource_type \in {"URDF_FILE", "URDF_STRING"}
    THEN IF open_fails(f, stored_model)
         THEN Raise("FileNotFoundError", "open", <<>>)
         ELSE IF resource_type = "URDF_FILE"
              THEN ReturnFile(stored_model, <<>>, <<"open">>)
              ELSE ReturnText(ReadFile(f, stored_model), <<"open">>)
    ELSE IF resource_type = "SDF_STRING"
    THEN sdf_string_call(f, stored_model, importable, <<>>)
    ELSE LET created == IF resource_type = "SDF_FILE"
                        THEN "NamedTemporaryFile" ELSE "mkstemp"
             nested  == sdf_string_call(f, stored_model, importable, <<created>>)
         IN  IF nested.status # "ok" THEN nested
             ELSE IF resource_type = "SDF_FILE"
             THEN ReturnFile(temp_path(stored_model), nested.text,
                             nested.fx \o <<"write">>)
             ELSE ReturnPath(temp_path(stored_model),
                             nested.fx \o <<"open", "write">>)

\* get_model_resource for a stored .urdf file
get_model_resource_urdf(f, stored_model, resource_type, importable) ==
    IF resource_type = "URDF_PATH" THEN ReturnPath(stored_model, <<>>)
    ELSE IF resource_type \in {"URDF_FILE", "URDF_STRING"}
    THEN IF open_fails(f, stored_model)
         THEN Raise("FileNotFoundError", "open", <<>>)
         ELSE IF resource_type = "URDF_FILE"
              THEN ReturnFile(stored_model, <<>>, <<"open">>)
              ELSE ReturnText(ReadFile(f, stored_model), <<"open">>)
    ELSE IF ~importable
    THEN Raise("RuntimeError", "URDF to SDF conversion requires the 'scenario' package",
               <<import_scenario(importable)>>)
    ELSE IF resource_type = "SDF_STRING"
    THEN IF open_fails(f, stored_model)
         THEN Raise("ConverterError", "urdffile_to_sdfstring",
                    <<import_scenario(importable), import_scenario(importable)>>)
         ELSE ReturnText(urdffile_to_sdfstring(stored_model),
                         <<import_scenario(importable), import_scenario(importable),
                           "urdffile_to_sdfstring">>)
    ELSE LET created == IF resource_type = "SDF_FILE"
                        THEN "NamedTemporaryFile" ELSE "mkstemp"
             nested  == sdf_string_call(f, stored_model, importable,
                                        <<import_scenario(importable), created>>)
         IN  IF nested.status # "ok" THEN nested
             ELSE IF resource_type = "SDF_FILE"
             THEN ReturnFile(temp_path(stored_model), nested.text,
                             nested.fx \o <<"write">>)
             ELSE ReturnPath(temp_path(stored_model),
                             nested.fx \o <<"open", "write">>)

get_model_resource_sdf_reads(f, stored_model, resource_type) ==
    IF resource_type = "SDF_PATH" THEN ReturnPath(stored_model, <<>>)
    ELSE IF resource_type = "URDF_PATH" THEN ReturnPath(stored_model, <<>>)
    ELSE IF open_fails(f, stored_model)
    THEN Raise("FileNotFoundError", "open", <<>>)
    ELSE IF resource_type \in {"SDF_STRING", "URDF_STRING"}
    THEN ReturnText(ReadFile(f, stored_model), <<"open">>)
    ELSE ReturnFile(stored_model, <<>>, <<"open">>)

\* get_model_resource for a stored .sdf file
get_model_resource_sdf(f, stored_model, resource_type) ==
    IF resource_type = "SDF_PATH" THEN ReturnPath(stored_model, <<>>)
    ELSE IF resource_type \in UrdfTypes
    THEN Raise("ValueError", "SDF to URDF conversion is not supported", <<>>)
    ELSE IF open_fails(f, stored_model)
    THEN Raise("FileNotFoundError", "open", <<>>)
    ELSE IF resource_type = "SDF_STRING"
    THEN ReturnText(ReadFile(f, stored_model), <<"open">>)
    ELSE ReturnFile(stored_model, <<>>, <<"open">>)

get_model_resource(f, model_name, resource_type, importable, order) ==
    LET found == get_model_file(f, model_name, order)
    IN  IF found.status # "ok" THEN found
        ELSE IF ~endswith(found.path, {".urdf", ".sdf"})
        THEN Raise("RuntimeError", "Model has no urdf nor sdf resource", <<>>)
        ELSE IF endswith(found.path, {".urdf"})
        THEN get_model_resource_urdf(f, found.path, resource_type, importable)
        ELSE get_model_resource_sdf(f, found.path, resource_type)

(***************************************************************************)
(* scripts/get_inertial_parameters.py                                      *)
(***************************************************************************)
density == 1050

\* git config --global user.name / user.email
author_name == "author"

author_email == "author@example.org"

calculate_inertia_checked(g, dens) ==
    IF ~g.loadable \/ g.volume <= 0
    THEN [status |-> "LoadError", mass |-> 0,
          center_of_mass |-> <<0, 0, 0>>, inertia_tensor |-> Unloadable.moment_inertia]
    ELSE [status |-> "ok", mass |-> g.volume * dens,
          center_of_mass |-> g.center_mass, inertia_tensor |-> g.moment_inertia]

\* g is what trimesh.load(file_path) finds in the file
calculate_inertia(g, dens) ==
    IF ~g.loadable
    THEN [status |-> "LoadError", mass |-> 0,
          center_of_mass |-> <<0, 0, 0>>, inertia_tensor |-> Unloadable.moment_inertia]
    ELSE [status |-> "ok", mass |-> g.volume * dens,
          center_of_mass |-> g.center_mass, inertia_tensor |-> g.moment_inertia]

generate_urdf_inertia_tag_numbered(mass, center_of_mass, inertia_tensor) ==
    << Tag("<inertial>"),
       Tok("<mass/>", "", EmptyPath, <<mass, idx>>),
       Tok("<origin/>", "", EmptyPath,
           <<center_of_mass[1], center_of_mass[2], center_of_mass[3]>>),
       Tok("<inertia/>", "", EmptyPath,
           <<inertia_tensor[1][1], inertia_tensor[1][2], inertia_tensor[1][3],
             inertia_tensor[2][2], inertia_tensor[2][3], inertia_tensor[3][3]>>),
       Tag("</inertial>") >>

generate_urdf_inertia_tag(mass, center_of_mass, inertia_tensor) ==
    << Tag("<inertial>"),
       Tok("<mass/>", "", EmptyPath, <<mass>>),
       Tok("<origin/>", "", EmptyPath,
           <<center_of_mass[1], center_of_mass[2], center_of_mass[3]>>),
       Tok("<inertia/>", "", EmptyPath,
           <<inertia_tensor[1][1], inertia_tensor[1][2], inertia_tensor[1][3],
             inertia_tensor[2][2], inertia_tensor[2][3], inertia_tensor[3][3]>>),
       Tag("</inertial>") >>

generate_model_config(model_name, a_name, a_email, version, description, sdf_version) ==
    << Tag("<model>"),
       Tok("<name>", model_name, EmptyPath, <<>>),
       Tok("<version>", version, EmptyPath, <<>>),
       Tok("<sdf>", sdf_version, Path(FALSE, <<Comp("model", ".urdf")>>), <<>>),
       Tag("<author>"),
       Tok("<name>", a_name, EmptyPath, <<>>),
       Tok("<email>", a_email, EmptyPath, <<>>),
       Tag("</author>"),
       Tok("<description>", description, EmptyPath, <<>>),
       Tag("</model>") >>

generate_urdf(model_name, mass, center_of_mass, inertia_tensor, visual_mesh_filepath, collision_mesh_filepath) ==
    << Tok("<robot>", model_name, EmptyPath, <<>>),
       Tok("<link>", "body", EmptyPath, <<>>) >>
    \o generate_urdf_inertia_tag(mass, center_of_mass, inertia_tensor)
    \o << Tag("<visual>"), Tag("<origin/>"), Tag("<geometry>"),
          Tok("<mesh/>", "", visual_mesh_filepath, <<>>),
          Tag("</geometry>"), Tag("</visual>"),
          Tag("<collision>"), Tag("<origin/>"), Tag("<geometry>"),
          Tok("<mesh/>", "", collision_mesh_filepath, <<>>),
          Tag("</geometry>"), Tag("</collision>"),
          Tag("</link>"), Tag("</robot>") >>

\* the walk of the script's loop body: mesh after lines 173-196
main_locate_meshes(model, model_folder_path, order) ==
    MeshDict(model,
             visual_of_walk(model_folder_path, order),
             collision_by_priority(model_folder_path, mesh_extensions.collision,
                                   collision_candidates(order)))

\* the script's test before "Skipping ...": continue
main_skips(mesh) == mesh.visual = <<>> \/ mesh.collision = <<>>

RECURSIVE Selections(_)
Selections(S) ==
    {<<>>} \cup UNION {{<<x>> \o p : p \in Selections(S \ {x})} : x \in S}

\* the lists get_user_model_choice can return: the models the user picked,
\* each once, in set iteration order; [] for an invalid input
get_user_model_choice(models) == Selections(models)

\* with open(path, "w") as f: f.write(body)
write_file(tree, name, body) ==
    {x \in tree : ~(x.dir = <<>> /\ x.name = name)} \cup {File(<<>>, name, body)}

EmitRecord(fn, name, strs, mass, com, inertia, visual, collision, text) ==
    [fn |-> fn, name |-> name, strs |-> strs, mass |-> mass, com |-> com,
     inertia |-> inertia, visual |-> visual, collision |-> collision, text |-> text]

(***************************************************************************)
(* The state machine                                                       *)
(***************************************************************************)
Call(op, model, rtype, flag, out) ==
    [op |-> op, model |-> model, rtype |-> rtype, flag |-> flag, out |-> out]

NoCall == Call("", "", "", FALSE, ReturnPath(EmptyPath, <<>>))

\* the script loads a collision mesh only of a model that has both meshes
HasBothMeshes(tree) ==
    /\ \E x \in tree : x.name.ext \in {".dae"}
    /\ \E x \in tree : x.name.ext \in {".stl", ".obj"}

Init ==
    /\ fs \in {f \in [DirEntries -> SUBSET FileUniverse] :
                  /\ f["__pycache__"] = {}
                  /\ Cardinality(f["a"]) + Cardinality(f["b"]) <= MaxFiles}
    /\ geom \in {g \in [Models -> Geometries] :
                  \A m \in Models : ~HasBothMeshes(fs[m]) => g[m] = Unloadable}
    /\ ret = NoCall
    /\ pc = "idle"
    /\ selected = <<>>
    /\ idx = 1
    /\ generated = {}
    /\ emitlog = {}

\* no interpreter is running: the next program can start
Idle == pc = "idle" /\ ret = NoCall

BatchVars == <<pc, selected, idx, generated, emitlog>>

CallGetModelMeshesInfo ==
    /\ Idle
    /\ \E m \in Requested : \E order \in walk_model(fs, m) :
          ret' = Call("get_model_meshes_info", m, "", FALSE,
                      get_model_meshes_info(fs, m, order))
    /\ UNCHANGED <<fs, geom, BatchVars>>

CallGetModelFile ==
    /\ Idle
    /\ \E m \in Requested : \E order \in walk_model(fs, m) :
          ret' = Call("get_model_file", m, "", FALSE, get_model_file(fs, m, order))
    /\ UNCHANGED <<fs, geom, BatchVars>>

CallGetModelString ==
    /\ Idle
    /\ \E m \in Requested, use_random_color \in BOOLEAN :
       \E order \in walk_model(fs, m) :
       \E rng \in IF use_random_color THEN 0..MaxRandom ELSE {0} :
          ret' = Call("get_model_string", m, "", use_random_color,
                      get_model_string(fs, m, use_random_color, order,
                                       random_color(rng)))
    /\ UNCHANGED <<fs, geom, BatchVars>>

CallGetModelResource ==
    /\ Idle
    /\ \E m \in Requested, resource_type \in ResourceType :
       \E order \in walk_model(fs, m) :
       \E importable \in IF resource_type \in SdfTypes THEN BOOLEAN ELSE {TRUE} :
          ret' = Call("get_model_resource", m, resource_type, FALSE,
                      get_model_resource(fs, m, resource_type, importable, order))
    /\ UNCHANGED <<fs, geom, BatchVars>>

\* the script up to its loop: lines 155-170
Startup ==
    /\ Idle
    /\ LET model_names == get_model_names(fs)
           failing == {m \in model_names : \E order \in walk_model(fs, m) :
                          get_model_file(fs, m, order).status # "ok"}
       IN  IF failing # {}
           THEN /\ pc' = "crashed"
                /\ selected' = <<>>
                /\ ret' = Call("main", "", "", FALSE,
                               Raise("RuntimeError",
                                     "Found multiple models in the same folder", <<>>))
           ELSE \E sel \in get_user_model_choice(model_names) :
                /\ selected' = sel
                /\ pc' = IF sel = <<>> THEN "done" ELSE "loop"
                /\ ret' = Call("main", "", "", FALSE, ReturnPath(EmptyPath, <<>>))
    /\ idx' = 1
    /\ generated' = {}
    /\ UNCHANGED <<fs, geom, emitlog>>

\* one iteration of the loop over selected_models: lines 171-236
ProcessModel ==
    /\ pc = "loop"
    /\ LET model == selected[idx]
           model_folder_path == model_folder(model)
           last == (idx = Len(selected))
       IN  \E order \in os_walk(fs[model]) :
           LET mesh == main_locate_meshes(model, model_folder_path, order)
               calc == calculate_inertia(geom[model], density)
               model_config == generate_model_config(model, author_name, author_email,
                                   "1.0", "Autogenerated model.", "1.7")
               visual_rel == relpath(mesh.visual[1], model_folder_path)
               collision_rel == relpath(mesh.collision[1], model_folder_path)
               model_urdf == generate_urdf(model, calc.mass, calc.center_of_mass,
                                 calc.inertia_tensor, visual_rel, collision_rel)
           IN  IF main_skips(mesh)
               THEN /\ idx' = idx + 1
                    /\ pc' = IF last THEN "done" ELSE "loop"
                    /\ UNCHANGED <<fs, geom, ret, selected, generated, emitlog>>
               ELSE IF calc.status # "ok"
               THEN /\ pc' = "crashed"
                    /\ ret' = Call("main", model, "", FALSE,
                                   Raise(calc.status, "trimesh.load", <<>>))
                    /\ UNCHANGED <<fs, geom, selected, idx, generated, emitlog>>
               ELSE /\ fs' = [fs EXCEPT ![model] =
                                write_file(write_file(@, Comp("model", ".config"),
                                                      model_config),
                                           Comp("model", ".urdf"), model_urdf)]
                    /\ generated' = generated \cup {model}
                    /\ emitlog' = emitlog \cup
                         { EmitRecord("generate_model_config", model,
                              <<author_name, author_email, "1.0",
                                "Autogenerated model.", "1.7">>,
                              0, <<>>, <<>>, EmptyPath, EmptyPath, model_config),
                           EmitRecord("generate_urdf_inertia_tag", "", <<>>,
                              calc.mass, calc.center_of_mass, calc.inertia_tensor,
                              EmptyPath, EmptyPath,
                              generate_urdf_inertia_tag(calc.mass, calc.center_of_mass,
                                                        calc.inertia_tensor)),
                           EmitRecord("generate_urdf", model, <<>>,
                              calc.mass, calc.center_of_mass, calc.inertia_tensor,
                              visual_rel, collision_rel, model_urdf) }
                    /\ idx' = idx + 1
                    /\ pc' = IF last THEN "done" ELSE "loop"
                    /\ UNCHANGED <<geom, ret, selected>>

\* the interpreter exits: the call's result and the script's variables are gone
Exit ==
    /\ pc \in {"idle", "done", "crashed"}
    /\ ret # NoCall
    /\ ret' = NoCall
    /\ pc' = "idle"
    /\ selected' = <<>>
    /\ idx' = 1
    /\ generated' = {}
    /\ UNCHANGED <<fs, geom, emitlog>>

Next ==
    \/ CallGetModelMeshesInfo
    \/ CallGetModelFile
    \/ CallGetModelString
    \/ CallGetModelResource
    \/ Startup
    \/ ProcessModel
    \/ Exit

Spec == Init /\ [][Next]_vars

(***************************************************************************)
(* Facts about the installed assets, stated on the directory tree itself   *)
(***************************************************************************)
HasExt(tree, exts) == \E x \in tree : x.name.ext \in exts

LacksMesh(m) ==
    \/ ~HasExt(fs[m], {".dae"})
    \/ ~HasExt(fs[m], {".stl", ".obj"})

DescriptionsOf(m) == {x \in fs[m] : x.name.ext \in {".urdf", ".sdf"}}

\* the extension of the one description file of model m, "" when m is no
\* model name or has none or several
StoredExt(m) ==
    IF m \in Models /\ Cardinality(DescriptionsOf(m)) = 1
    THEN (CHOOSE x \in DescriptionsOf(m) : TRUE).name.ext
    ELSE ""

WrittenFiles(m, name) == {x \in fs[m] : x.dir = <<>> /\ x.name = name}

WrittenUrdf(m) == WrittenFiles(m, Comp("model", ".urdf"))

WrittenConfig(m) == WrittenFiles(m, Comp("model", ".config"))

Range(seq) == {seq[i] : i \in 1..Len(seq)}

\* the element, <visual> or <collision>, that position i of a text lies in
Enclosing(text, i) ==
    LET opens == {j \in 1..i : text[j].t \in {"<visual>", "<collision>"}}
    IN  IF opens = {} THEN ""
        ELSE text[CHOOSE j \in opens : \A k \in opens : k <= j].t

\* the paths of the mesh references of a description inside element el
MeshRefs(text, el) ==
    {text[i].p : i \in {j \in 1..Len(text) :
                          text[j].t = "<mesh/>" /\ Enclosing(text, j) = el}}

(***************************************************************************)
(* Claims                                                                  *)
(***************************************************************************)

\* C1: a requested model whose tree lacks a collision mesh or lacks a visual
\* mesh makes get_model_meshes_info raise the mesh-not-found ValueError
\* without returning a dict, and the batch script writes neither model.config
\* nor model.urdf for it.
C1_MissingMeshFailsAndWritesNothing ==
    /\ ( /\ ret.op = "get_model_meshes_info"
         /\ ret.model \in DirEntries
         /\ ~HasExt(fs[ret.model], {".dae"}) \/ ~HasExt(fs[ret.model], {".stl", ".obj"}) )
       => ret.out = Raise("ValueError", "visual or collision mesh not found", <<>>)
    /\ \A m \in Models :
          LacksMesh(m) => /\ m \notin generated
                          /\ WrittenUrdf(m) = {}
                          /\ WrittenConfig(m) = {}

\* C1 witness: the batch has finished, it skipped a model without meshes and
\* wrote the files of the model after it.
C1_Witness ==
    /\ pc = "done"
    /\ Len(selected) = 2
    /\ LacksMesh(selected[1])
    /\ selected[2] \in generated

\* C2 (as claimed): when the batch ends, every selected model that has both
\* meshes and a loadable collision mesh and that comes after a model whose
\* collision mesh is missing or cannot be loaded has had its files written.
C2_BatchSurvivesBadMesh ==
    pc \in {"done", "crashed"} =>
        \A i, j \in 1..Len(selected) :
            ( /\ i < j
              /\ ~HasExt(fs[selected[i]], {".stl", ".obj"}) \/ ~geom[selected[i]].loadable
              /\ ~LacksMesh(selected[j])
              /\ geom[selected[j]].loadable )
            => selected[j] \in generated

\* C3: for a model whose stored description is an .sdf file, get_model_resource
\* with URDF_FILE, URDF_PATH or URDF_STRING raises the unsupported-conversion
\* ValueError, returns nothing and opens or creates no file, whenever called.
C3_SdfToUrdfUnsupported ==
    ( /\ ret.op = "get_model_resource"
      /\ StoredExt(ret.model) = ".sdf"
      /\ ret.rtype \in UrdfTypes )
    => ret.out = Raise("ValueError", "SDF to URDF conversion is not supported", <<>>)

\* C3 witness: a URDF resource was asked of a model stored as .sdf.
C3_Witness ==
    /\ ret.op = "get_model_resource"
    /\ StoredExt(ret.model) = ".sdf"
    /\ ret.rtype = "URDF_PATH"
    /\ ret.out.status = "ValueError"

\* C4: for a model whose stored description is a .urdf file, get_model_resource
\* with an SDF resource type, when importing the converter fails, raises the
\* conversion-unavailable RuntimeError at once: the failed import is the only
\* effect of the call, no temporary file was created before it.
C4_ConverterMissingFailsFirst ==
    ( /\ ret.op = "get_model_resource"
      /\ StoredExt(ret.model) = ".urdf"
      /\ ret.rtype \in SdfTypes
      /\ "import scenario: ImportError" \in Range(ret.out.fx) )
    => ret.out = Raise("RuntimeError",
                       "URDF to SDF conversion requires the 'scenario' package",
                       <<"import scenario: ImportError">>)

\* C4 witness: SDF_PATH was asked of a .urdf model without the converter.
C4_Witness ==
    /\ ret.op = "get_model_resource"
    /\ StoredExt(ret.model) = ".urdf"
    /\ ret.rtype = "SDF_PATH"
    /\ ret.out.status = "RuntimeError"
    /\ "import scenario: ImportError" \in Range(ret.out.fx)

\* C5 (as claimed): for a model name of get_model_names, get_model_file returns
\* the path of the one .urdf/.sdf file of the tree, a path where that file
\* exists; the empty string when there is none; RuntimeError when several.
C5_ModelFileIsThePathOfTheFile ==
    ( /\ ret.op = "get_model_file"
      /\ ret.model \in get_model_names(fs) )
    => LET found == DescriptionsOf(ret.model)
       IN  /\ Cardinality(found) = 1 =>
                /\ ret.out.status = "ok"
                /\ ret.out.path \in ExistingPaths(fs)
                /\ \A x \in found :
                      ret.out.path = file_path(model_folder(ret.model), x)
           /\ Cardinality(found) = 0 => ret.out = ReturnPath(EmptyPath, <<>>)
           /\ Cardinality(found) > 1 => ret.out.status = "RuntimeError"

\* C6: in every model.urdf the batch script wrote, the visual and the collision
\* mesh reference are relative paths that stay inside the model's directory
\* and name a mesh file of that model's tree.
C6_MeshReferencesRelative ==
    \A m \in Models : \A u \in WrittenUrdf(m) :
        /\ Cardinality(MeshRefs(u.body, "<visual>")) = 1
        /\ Cardinality(MeshRefs(u.body, "<collision>")) = 1
        /\ \A p \in MeshRefs(u.body, "<visual>") \cup MeshRefs(u.body, "<collision>") :
              /\ ~p.abs
              /\ p.parts # <<>>
              /\ \A k \in 1..Len(p.parts) : p.parts[k].stem \notin {"..", "."}
              /\ \E x \in fs[m] :
                    /\ x.dir \o <<x.name>> = p.parts
                    /\ x.name.ext \in {".dae", ".stl", ".obj"}

\* C6 witness: a model.urdf was written for a model whose collision mesh lies
\* two directories deep and whose visual mesh lies one directory deep.
C6_Witness ==
    \E m \in Models : \E u \in WrittenUrdf(m) :
        /\ \E p \in MeshRefs(u.body, "<collision>") : Len(p.parts) = 3
        /\ \E p \in MeshRefs(u.body, "<visual>") : Len(p.parts) = 2

C8_MassIsVolumeTimesDensity ==
    /\ \A m \in Models : \A u \in WrittenUrdf(m) :
          /\ geom[m].loadable
          /\ \A i \in 1..Len(u.body) :
                u.body[i].t = "<mass/>" => u.body[i].n = <<geom[m].volume * density>>
          /\ \E i \in 1..Len(u.body) : u.body[i].t = "<mass/>"
    /\ pc \in {"loop", "done", "crashed"} =>
          \A i \in 1..(idx - 1) :
              (~LacksMesh(selected[i]) /\ geom[selected[i]].loadable)
              => selected[i] \in generated
    /\ (pc = "crashed" /\ selected # <<>>) => ~geom[selected[idx]].loadable

\* C8 witness: the batch wrote the files of a model whose mesh has a negative
\* volume.
C8_Witness ==
    \E m \in generated :
        /\ geom[m].volume < 0
        /\ \E u \in WrittenUrdf(m) : \E i \in 1..Len(u.body) :
              u.body[i].t = "<mass/>" /\ u.body[i].n[1] < 0

\* C9: the collision mesh chosen is an .stl file whenever the tree holds one,
\* in whatever order the walk visits the files and however many .obj files
\* there are; an .obj file is chosen only when the tree holds no .stl file.
C9_StlBeforeObj ==
    /\ (ret.op = "get_model_meshes_info" /\ ret.out.status = "ok") =>
          /\ Len(ret.out.mesh.collision) = 1
          /\ endswith(ret.out.mesh.collision[1], {".stl", ".obj"})
          /\ HasExt(fs[ret.model], {".stl"})
                <=> endswith(ret.out.mesh.collision[1], {".stl"})
    /\ \A m \in Models : \A u \in WrittenUrdf(m) :
          \A p \in MeshRefs(u.body, "<collision>") :
              /\ endswith(p, {".stl", ".obj"})
              /\ HasExt(fs[m], {".stl"}) <=> endswith(p, {".stl"})

\* C9 witness: get_model_meshes_info chose the .stl file of a tree that holds
\* two .obj files, both visited before the .stl file.
C9_Witness ==
    /\ ret.op = "get_model_meshes_info"
    /\ ret.out.status = "ok"
    /\ Cardinality({x \in fs[ret.model] : x.name.ext = ".obj"}) = 2
    /\ endswith(ret.out.mesh.collision[1], {".stl"})

\* C10 (as claimed): get_model_string with use_random_color=False returns the
\* stored text; with use_random_color=True it returns the stored text with
\* material blocks inserted, each of them inside a <visual> element.
C10_MaterialOnlyInVisual ==
    ( /\ ret.op = "get_model_string"
      /\ ret.out.status = "ok" )
    => LET text   == ret.out.text
           stored == (CHOOSE x \in DescriptionsOf(ret.model) : TRUE).body
           kept   == SelectSeq(text, LAMBDA k :
                        k.t \notin {"<material>", "<color/>", "</material>"})
       IN  /\ kept = stored
           /\ ~ret.flag => text = stored
           /\ \A i \in 1..Len(text) :
                 text[i].t = "<material>" => Enclosing(text, i) = "<visual>"

====
